---------------------------- MODULE Spec2Model ----------------------------
(***************************************************************************)
(* A model of asset-companion's image normalisation pipeline               *)
(* (src/backend/asset_companion).  Images are modelled by their geometry:  *)
(* size, mode, the rectangle that holds the pixels derived from the source *)
(* image, what fills the rest of the canvas, and the resampling filters    *)
(* the content has gone through.  Floating-point expressions of the source *)
(* are modelled by the integer value the IEEE-754 computation yields.      *)
(***************************************************************************)
EXTENDS Integers, Sequences, FiniteSets, TLC

VARIABLES
    fn,     \* harness: name of the function that has been applied ("" before)
    args,   \* harness: the inputs the function is applied to
    opt,    \* harness: inputs drawn when the function is applied
    ret,    \* harness: what the function returned or raised
    pc,     \* process_one: the stage about to run
    req,    \* process_one: the arguments of the call
    pil,    \* process_one: the image being processed
    k,      \* process_one: the resolved kind
    meta,   \* process_one: the metadata record built so far
    exc,    \* process_one: the exception caught by the handler
    trace,  \* process_one: the stages that have run, in order
    files,  \* file system: the images at dst and at the temporary paths
    log,    \* file system: the records of the JSONL log
    outcome,\* process_one: what the call returned or raised
    procs   \* run_realesrgan: the external processes started, in order

harnessVars == <<fn, args, opt, ret>>
pipeVars == <<pc, req, pil, k, meta, exc, trace, files, log, outcome, procs>>
vars == <<fn, args, opt, ret, pc, req, pil, k, meta, exc, trace, files, log,
          outcome, procs>>

Null == [none |-> TRUE]

\* No process_one call is in progress (the function harnesses).
PipeIdle ==
    /\ pc = "idle"
    /\ req = Null /\ pil = Null /\ k = "" /\ meta = Null /\ exc = ""
    /\ trace = <<>> /\ files = Null /\ log = <<>> /\ outcome = Null
    /\ procs = <<>>

---------------------------------------------------------------------------
(* Bounds of the model.                                                    *)

\* Source image sides are drawn from 1..MaxDim and from BigDims.
MaxDim == 4
\* Target sides are drawn from 1..MaxSide and from BigSides.
MaxSide == 5

\* Larger sides: 22 = 2*11 and 49 = 7*7 are sides at which the double
\* product h * (t / w) falls below the exact quotient (see RoundsBelow).
BigDims == {22, 49}
BigSides == {15}

Dims == (1..MaxDim) \cup BigDims
Sides == (1..MaxSide) \cup BigSides

Max(a, b) == IF a >= b THEN a ELSE b
Min(a, b) == IF a <= b THEN a ELSE b

---------------------------------------------------------------------------
(* Floating point.                                                         *)

\* The triples <<a, n, d>>, 1 <= a, d <= 96 and 1 <= n <= 16, for which the
\* Python expression int(a * (n / d)) on IEEE-754 doubles is one less than
\* the exact floor(a*n/d): d divides a*n, n/d is not representable, and the
\* rounded product lies just below the integer quotient.  For every other
\* triple in that range the expression equals floor(a*n/d).
RoundsBelow ==
  {
    <<11,15,11>>, <<13,15,13>>, <<22,15,11>>, <<22,15,22>>, <<23,13,23>>,
    <<26,15,13>>, <<26,15,26>>, <<27,13,3>>, <<39,15,13>>, <<44,15,11>>,
    <<44,15,22>>, <<44,15,44>>, <<45,7,5>>, <<45,13,45>>, <<45,14,5>>,
    <<45,14,10>>, <<46,13,23>>, <<46,13,46>>, <<47,3,47>>, <<47,6,47>>,
    <<47,6,94>>, <<47,12,47>>, <<47,12,94>>, <<49,1,49>>, <<49,2,49>>,
    <<49,4,49>>, <<49,8,49>>, <<49,16,49>>, <<51,13,3>>, <<52,15,13>>,
    <<52,15,26>>, <<52,15,52>>, <<54,13,3>>, <<54,13,6>>, <<55,3,11>>,
    <<55,6,11>>, <<55,6,22>>, <<55,7,55>>, <<55,9,33>>, <<55,12,11>>,
    <<55,12,22>>, <<55,12,44>>, <<55,14,55>>, <<55,15,55>>, <<57,13,3>>,
    <<69,11,69>>, <<71,7,71>>, <<71,14,71>>, <<75,11,15>>, <<77,5,77>>,
    <<77,10,77>>, <<77,15,11>>, <<78,15,13>>, <<78,15,26>>, <<83,7,83>>,
    <<83,14,83>>, <<85,7,5>>, <<85,14,5>>, <<85,14,10>>, <<88,15,11>>,
    <<88,15,22>>, <<88,15,44>>, <<88,15,88>>, <<90,7,5>>, <<90,7,10>>,
    <<90,13,45>>, <<90,13,90>>, <<90,14,5>>, <<90,14,10>>, <<90,14,20>>,
    <<91,15,13>>, <<92,13,23>>, <<92,13,46>>, <<92,13,92>>, <<93,13,93>>,
    <<94,3,47>>, <<94,3,94>>, <<94,6,47>>, <<94,6,94>>, <<94,12,47>>,
    <<94,12,94>>, <<95,7,95>>, <<95,14,95>>
  }

\* int(a * (n / d)) as the interpreter computes it (scale.py:86,89 and
\* pad_crop.py:190-204 all have this shape).
FloatTrunc(a, n, d) ==
    IF <<a, n, d>> \in RoundsBelow THEN (a * n) \div d - 1 ELSE (a * n) \div d

---------------------------------------------------------------------------
(* Images (PIL.Image as the code uses it).                                 *)

Transparent == [rgba |-> <<0, 0, 0, 0>>]

\* A freshly decoded w x h image: every pixel is source content.  The
\* content rectangle is (cx, cy, cw, ch); its top-left pixel is the source
\* pixel (sx, sy).  filters are the resampling filters the content went
\* through, ops the per-pixel operations applied to the image, in order.
SourceImage(w, h, mode) ==
    [w |-> w, h |-> h, mode |-> mode,
     cx |-> 0, cy |-> 0, cw |-> w, ch |-> h, sx |-> 0, sy |-> 0,
     fill |-> "transparent", filters |-> {}, ops |-> <<>>]

\* Image.new(mode, (w, h), (0, 0, 0, 0)): an empty transparent canvas.
NewImage(mode, w, h) ==
    [w |-> w, h |-> h, mode |-> mode,
     cx |-> 0, cy |-> 0, cw |-> 0, ch |-> 0, sx |-> 0, sy |-> 0,
     fill |-> "transparent", filters |-> {}, ops |-> <<>>]

\* canvas.paste(img, (x, y)) on an empty canvas: img's pixels replace the
\* canvas pixels of the box at (x, y), clipped to the canvas; no blending.
paste(canvas, img, x, y) ==
    LET x0 == Max(0, x + img.cx)
        y0 == Max(0, y + img.cy)
        x1 == Min(canvas.w, x + img.cx + img.cw)
        y1 == Min(canvas.h, y + img.cy + img.ch)
    IN  [canvas EXCEPT !.cx = x0, !.cy = y0,
                       !.cw = Max(0, x1 - x0), !.ch = Max(0, y1 - y0),
                       !.sx = img.sx + (x0 - (x + img.cx)),
                       !.sy = img.sy + (y0 - (y + img.cy)),
                       !.filters = img.filters, !.ops = img.ops]

\* img.resize((nw, nh), resample=filter).  PIL returns a copy when the size
\* does not change; otherwise the whole image is resampled.
resize(img, nw, nh, filter) ==
    IF nw = img.w /\ nh = img.h THEN img
    ELSE LET x0 == (img.cx * nw) \div img.w
             y0 == (img.cy * nh) \div img.h
             x1 == ((img.cx + img.cw) * nw) \div img.w
             y1 == ((img.cy + img.ch) * nh) \div img.h
         IN  [img EXCEPT !.w = nw, !.h = nh,
                         !.cx = x0, !.cy = y0, !.cw = x1 - x0, !.ch = y1 - y0,
                         !.filters = @ \cup {filter}]

\* img.crop((x0, y0, x1, y1)): the box, exclusive of x1 and y1.
crop(img, x0, y0, x1, y1) ==
    LET a0 == Max(x0, img.cx)
        b0 == Max(y0, img.cy)
        a1 == Min(x1, img.cx + img.cw)
        b1 == Min(y1, img.cy + img.ch)
    IN  [img EXCEPT !.w = x1 - x0, !.h = y1 - y0,
                    !.cx = IF a1 > a0 /\ b1 > b0 THEN a0 - x0 ELSE 0,
                    !.cy = IF a1 > a0 /\ b1 > b0 THEN b0 - y0 ELSE 0,
                    !.cw = IF a1 > a0 /\ b1 > b0 THEN a1 - a0 ELSE 0,
                    !.ch = IF a1 > a0 /\ b1 > b0 THEN b1 - b0 ELSE 0,
                    !.sx = img.sx + (a0 - img.cx),
                    !.sy = img.sy + (b0 - img.cy)]

\* The pixel of img at (x, y): the source pixel it was copied from when
\* (x, y) lies in the content rectangle of an image that was never
\* resampled or processed, a processed value when it was, and the fill
\* elsewhere.
Pixel(img, x, y) ==
    IF /\ img.cx <= x /\ x < img.cx + img.cw
       /\ img.cy <= y /\ y < img.cy + img.ch
    THEN IF img.filters = {} /\ img.ops = <<>>
         THEN [src |-> <<img.sx + (x - img.cx), img.sy + (y - img.cy)>>]
         ELSE [processed |-> <<img.filters, img.ops>>]
    ELSE IF img.fill = "transparent" THEN Transparent
         ELSE [inpainted |-> img.fill]

\* What a call returns: an image, or the exception it raised.
Return(img, calls) == [err |-> "", img |-> img, pads |-> calls]
Raise(e, calls) == [err |-> e, img |-> Null, pads |-> calls]

---------------------------------------------------------------------------
(* scale.py                                                                *)

\* choose_integer_scale without its lower bound of 1.
choose_integer_scale_unclamped(src_wh, target) ==
    Min(target \div Max(1, src_wh[1]), target \div Max(1, src_wh[2]))

choose_integer_scale(src_wh, target) ==
    LET w == src_wh[1]
        h == src_wh[2]
        sf == Max(1, Min(target \div Max(1, w), target \div Max(1, h)))
    IN  Max(sf, 1)

\* resize_nearest with the Lanczos filter in place of NEAREST.
resize_nearest_lanczos(pil_img, scale) ==
    resize(pil_img, pil_img.w * scale, pil_img.h * scale, "LANCZOS")

resize_nearest(pil_img, scale) ==
    resize(pil_img, pil_img.w * scale, pil_img.h * scale, "NEAREST")

resize_lanczos_to_box(pil_img, target_wh) ==
    resize(pil_img, target_wh[1], target_wh[2], "LANCZOS")

\* resize_lanczos_fit_long fitting the short side to the target instead.
resize_lanczos_fit_short(pil_img, target_long) ==
    LET w == pil_img.w
        h == pil_img.h
    IN  IF Min(w, h) <= target_long THEN pil_img
        ELSE IF w >= h
             THEN resize(pil_img, (w * target_long) \div h, target_long,
                         "LANCZOS")
             ELSE resize(pil_img, target_long, (h * target_long) \div w,
                         "LANCZOS")
resize_lanczos_fit_long(pil_img, target_long) ==
    LET w == pil_img.w
        h == pil_img.h
        long_side == Max(w, h)
    IN  IF long_side <= target_long THEN pil_img
        ELSE IF w >= h
             THEN resize(pil_img, target_long,
                         Max(1, FloatTrunc(h, target_long, w)), "LANCZOS")
             ELSE resize(pil_img, Max(1, FloatTrunc(w, target_long, h)),
                         target_long, "LANCZOS")

---------------------------------------------------------------------------
(* pad_crop.py                                                             *)

\* aspect_delta(w, h) < 0.1, i.e. abs((w / max(1.0, h)) - 1.0) < 0.1 on
\* doubles.  For w >= h the comparison agrees with the exact one.  For
\* w < h the double nearest 0.9 lies above 0.9, so a ratio of exactly 9/10
\* gives a delta just under 0.1 and the comparison is true.
aspect_delta_small(w, h) ==
    IF w >= h THEN 10 * (w - h) < h ELSE 10 * (h - w) <= h

\* The assertion of pad_to_square (pad_invariant), and the assertion with
\* "or" for "and".
pad_invariant_swapped(w, h, side) == w <= side \/ h <= side
pad_invariant(w, h, side) == w <= side /\ h <= side

\* Where pad_to_square puts the image on the canvas, per axis
\* (center_offset), and the offset without the halving.
center_offset_unhalved(side, extent) == side - extent
center_offset(side, extent) == (side - extent) \div 2

pad_to_square(pil_img, side, inpaint, method) ==
    LET w == pil_img.w
        h == pil_img.h
        call == <<w, h, side>>
        canvas == NewImage("RGBA", side, side)
        x == center_offset(side, w)
        y == center_offset(side, h)
        pasted == paste(canvas, pil_img, x, y)
    IN  IF ~pad_invariant(w, h, side) THEN Raise("AssertionError", <<call>>)
        ELSE IF w = side /\ h = side THEN Return(pil_img, <<call>>)
        ELSE IF ~inpaint THEN Return(pasted, <<call>>)
        ELSE Return([pasted EXCEPT !.fill = method], <<call>>)

\* The image smart_square fits into the box before it pads or crops
\* (smart_fit), and the image left as it came.
smart_fit_unfitted(pil_img, side) == pil_img
smart_fit(pil_img, side) == resize_lanczos_fit_long(pil_img, side)

\* sal is the box bbox_from_saliency finds in the fitted image; it is read
\* only on the crop path with use_saliency set.
smart_square(pil_img, side, use_saliency, allow_crop, sal) ==
    LET w == pil_img.w
        h == pil_img.h
        img_fit == smart_fit(pil_img, side)
        fw == img_fit.w
        fh == img_fit.h
        cx == IF use_saliency THEN (sal[1] + sal[3]) \div 2 ELSE fw \div 2
        cy == IF use_saliency THEN (sal[2] + sal[4]) \div 2 ELSE fh \div 2
        x0 == Max(0, Min(fw - side, cx - side \div 2))
        y0 == Max(0, Min(fh - side, cy - side \div 2))
    IN  IF w = side /\ h = side THEN Return(pil_img, <<>>)
        ELSE IF aspect_delta_small(w, h)
        THEN IF Max(w, h) > side
             THEN pad_to_square(img_fit, side, FALSE, "telea")
             ELSE pad_to_square(pil_img, side, FALSE, "telea")
        ELSE IF ~allow_crop THEN pad_to_square(img_fit, side, FALSE, "telea")
        ELSE IF fw >= side /\ fh >= side
             THEN Return(crop(img_fit, x0, y0, x0 + side, y0 + side), <<>>)
             ELSE pad_to_square(img_fit, side, FALSE, "telea")

\* img_aspect >= target_aspect: correctly rounded quotients of small
\* integers compare as the exact ratios do (h > 0 and target_h > 0 here).
aspect_ge(w, h, target_w, target_h) == w * target_h >= target_w * h

\* The size fit_to_size downscales a w0 x h0 image to.
fit_dims(w0, h0, target_w, target_h) ==
    LET wide == aspect_ge(w0, h0, target_w, target_h)
        \* fit to width, or fit to height
        w1 == IF wide THEN target_w ELSE Max(1, FloatTrunc(w0, target_h, h0))
        h1 == IF wide THEN Max(1, FloatTrunc(h0, target_w, w0)) ELSE target_h
        \* "ensure we don't exceed target dimensions"
        h2 == IF w1 > target_w THEN FloatTrunc(h1, target_w, w1) ELSE h1
        w2 == IF w1 > target_w THEN target_w ELSE w1
        new_w == IF h2 > target_h THEN FloatTrunc(w2, target_h, h2) ELSE w2
        new_h == IF h2 > target_h THEN target_h ELSE h2
    IN  <<new_w, new_h>>

\* The padding step of fit_to_size: the fitted image centred on a
\* transparent target_w x target_h canvas (pad_to_box), and the same with
\* the canvas sides exchanged.
pad_to_box_swapped(img_fit, target_w, target_h) ==
    paste(NewImage("RGBA", target_h, target_w), img_fit,
          (target_w - img_fit.w) \div 2, (target_h - img_fit.h) \div 2)
pad_to_box(img_fit, target_w, target_h) ==
    paste(NewImage("RGBA", target_w, target_h), img_fit,
          (target_w - img_fit.w) \div 2, (target_h - img_fit.h) \div 2)

fit_to_size(pil_img, target_w, target_h, allow_crop) ==
    LET w0 == pil_img.w
        h0 == pil_img.h
        needs_downscale == w0 > target_w \/ h0 > target_h
        img_fit == IF needs_downscale
                   THEN resize_lanczos_to_box(
                            pil_img, fit_dims(w0, h0, target_w, target_h))
                   ELSE pil_img
        w == img_fit.w
        h == img_fit.h
        x0 == (w - target_w) \div 2
        y0 == (h - target_h) \div 2
    IN  IF w0 = target_w /\ h0 = target_h THEN Return(pil_img, <<>>)
        ELSE IF ~allow_crop
        THEN Return(pad_to_box(img_fit, target_w, target_h), <<>>)
        ELSE IF w >= target_w /\ h >= target_h
             THEN Return(crop(img_fit, x0, y0, x0 + target_w, y0 + target_h),
                         <<>>)
             ELSE Return(pad_to_box(img_fit, target_w, target_h), <<>>)

---------------------------------------------------------------------------
(* SpecFit: the scaling and fitting functions applied to drawn inputs.     *)

Modes == {"RGB", "RGBA"}

\* Boxes bbox_from_saliency may return for a w x h image (inclusive
\* corners inside the image), sampled at the edges and the middle.
SaliencyBoxes(w, h) ==
    LET xs == {0, w \div 2, w - 1}
        ys == {0, h \div 2, h - 1}
    IN  {b \in xs \X ys \X xs \X ys : b[1] <= b[3] /\ b[2] <= b[4]}

FitInputs ==
    [img : {SourceImage(w, h, m) : w \in Dims, h \in Dims, m \in Modes},
     target_w : Sides, target_h : Sides,
     allow_crop : BOOLEAN, use_saliency : BOOLEAN]

InitFit ==
    /\ fn = ""
    /\ args \in FitInputs
    /\ opt = Null
    /\ ret = Null
    /\ PipeIdle

CallFitToSize ==
    /\ fn = ""
    /\ fn' = "fit_to_size"
    /\ opt' = Null
    /\ ret' = fit_to_size(args.img, args.target_w, args.target_h,
                          args.allow_crop)
    /\ UNCHANGED <<args, pipeVars>>

\* smart_square(img, side): the side is the drawn target_w.
CallSmartSquare ==
    /\ fn = ""
    /\ \E sal \in SaliencyBoxes(smart_fit(args.img, args.target_w).w,
                                smart_fit(args.img, args.target_w).h) :
          /\ fn' = "smart_square"
          /\ opt' = [sal |-> sal]
          /\ ret' = smart_square(args.img, args.target_w, args.use_saliency,
                                 args.allow_crop, sal)
    /\ UNCHANGED <<args, pipeVars>>

CallPadToSquare ==
    /\ fn = ""
    /\ \E inpaint \in BOOLEAN, method \in {"telea", "ns"} :
          /\ fn' = "pad_to_square"
          /\ opt' = [inpaint |-> inpaint, method |-> method]
          /\ ret' = pad_to_square(args.img, args.target_w, inpaint, method)
    /\ UNCHANGED <<args, pipeVars>>

CallChooseIntegerScale ==
    /\ fn = ""
    /\ fn' = "choose_integer_scale"
    /\ opt' = Null
    /\ ret' = choose_integer_scale(<<args.img.w, args.img.h>>, args.target_w)
    /\ UNCHANGED <<args, pipeVars>>

CallResizeLanczosFitLong ==
    /\ fn = ""
    /\ fn' = "resize_lanczos_fit_long"
    /\ opt' = Null
    /\ ret' = Return(resize_lanczos_fit_long(args.img, args.target_w), <<>>)
    /\ UNCHANGED <<args, pipeVars>>

NextFit ==
    \/ CallFitToSize
    \/ CallSmartSquare
    \/ CallPadToSquare
    \/ CallChooseIntegerScale
    \/ CallResizeLanczosFitLong

SpecFit == InitFit /\ [][NextFit]_vars

---------------------------------------------------------------------------
(* Claims about the fitting functions (checked under SpecFit).             *)

\* C1: fit_to_size with allow_crop=False returns an image whose dimensions
\* are exactly (target_w, target_h), for every input size and every
\* positive target (image smaller, larger, or mixed relative to the box).
C1_FitToSizeExact ==
    (fn = "fit_to_size" /\ ~args.allow_crop) =>
        /\ ret.err = ""
        /\ ret.img.w = args.target_w
        /\ ret.img.h = args.target_h

\* A fit without cropping of an image wider and shorter than a
\* non-square box has returned.
C1_Witness ==
    /\ fn = "fit_to_size" /\ ~args.allow_crop
    /\ args.img.w > args.target_w /\ args.img.h < args.target_h
    /\ args.target_w # args.target_h
    /\ ret.img.w = args.target_w /\ ret.img.h = args.target_h

\* C2: for w <= side and h <= side, pad_to_square (inpaint off) returns a
\* side x side canvas holding the original pixels unchanged at offset
\* ((side-w)//2, (side-h)//2), fully transparent everywhere else, the
\* left/top padding differing from the right/bottom one by at most 1.
C2_PadCentred ==
    (/\ fn = "pad_to_square" /\ ~opt.inpaint
     /\ args.img.w <= args.target_w /\ args.img.h <= args.target_w) =>
        LET side == args.target_w
            w == args.img.w
            h == args.img.h
            ox == (side - w) \div 2
            oy == (side - h) \div 2
            out == ret.img
            left == out.cx
            right == side - (out.cx + out.cw)
            top == out.cy
            bottom == side - (out.cy + out.ch)
        IN  /\ ret.err = ""
            /\ out.w = side /\ out.h = side
            /\ \A x \in 0..(side - 1), y \in 0..(side - 1) :
                  IF ox <= x /\ x < ox + w /\ oy <= y /\ y < oy + h
                  THEN Pixel(out, x, y) = Pixel(args.img, x - ox, y - oy)
                  ELSE Pixel(out, x, y) = Transparent
            /\ left - right \in {-1, 0, 1}
            /\ top - bottom \in {-1, 0, 1}

\* A 2 x 3 image has been padded into a 5 x 5 canvas (odd and even
\* leftovers).
C2_Witness ==
    /\ fn = "pad_to_square" /\ ~opt.inpaint
    /\ args.img.w = 2 /\ args.img.h = 3 /\ args.target_w = 5
    /\ ret.err = "" /\ ret.img.cx = 1 /\ ret.img.cy = 1

\* C3: pad_to_square with w > side or h > side raises and never returns an
\* image: the oversize input is not clamped, cropped or resized.
C3_PadOversizeRaises ==
    (/\ fn = "pad_to_square"
     /\ (args.img.w > args.target_w \/ args.img.h > args.target_w)) =>
        /\ ret.err = "AssertionError"
        /\ ret.img = Null

\* An image wider than the side but not taller has been handed to
\* pad_to_square.
C3_Witness ==
    /\ fn = "pad_to_square"
    /\ args.img.w > args.target_w /\ args.img.h <= args.target_w
    /\ ret.err = "AssertionError"

\* C4: in every execution of smart_square each call to pad_to_square is
\* made with an image whose width <= side and height <= side, so the
\* assertion of pad_to_square never fails.
C4_SizingInvariant ==
    (fn = "smart_square") =>
        /\ ret.err = ""
        /\ \A i \in 1..Len(ret.pads) :
              /\ ret.pads[i][3] = args.target_w
              /\ ret.pads[i][1] <= args.target_w
              /\ ret.pads[i][2] <= args.target_w

\* smart_square has padded an image that was larger than the side on both
\* axes and not near-square.
C4_Witness ==
    /\ fn = "smart_square"
    /\ args.img.w > args.target_w /\ args.img.h > args.target_w
    /\ ~aspect_delta_small(args.img.w, args.img.h)
    /\ Len(ret.pads) = 1 /\ ret.err = ""

\* C7: choose_integer_scale((w,h), target) = max(1, min(target // w,
\* target // h)); when max(w,h) <= target it is the largest sf with
\* sf*max(w,h) <= target; it is always >= 1; ((100,50),512) gives 5.
C7_IntegerScale ==
    /\ choose_integer_scale(<<100, 50>>, 512) = 5
    /\ (fn = "choose_integer_scale") =>
          LET w == args.img.w
              h == args.img.h
              t == args.target_w
          IN  /\ ret = Max(1, Min(t \div w, t \div h))
              /\ ret >= 1
              /\ Max(w, h) <= t =>
                    /\ ret * Max(w, h) <= t
                    /\ t < (ret + 1) * Max(w, h)

\* A scale factor above 1 has been chosen for a non-square source.
C7_Witness ==
    /\ fn = "choose_integer_scale"
    /\ args.img.w # args.img.h
    /\ ret > 1

---------------------------------------------------------------------------
(* detect.py                                                               *)

Kinds == {"auto", "pixel_art", "illustration"}

\* Defaults of detect_kind: pixel_color_threshold, and edge_threshold
\* (0.12) in hundredths.
PixelColorThreshold == 80
EdgeThresholdPct == 12

\* detect_kind with both comparisons made inclusive.
detect_kind_inclusive(uniq, edges, npix) ==
    LET few_colors == uniq <= PixelColorThreshold
        edgy == 100 * edges >= EdgeThresholdPct * npix
    IN  IF few_colors /\ edgy THEN "pixel_art" ELSE "illustration"
\* detect_kind on an image whose downscaled sample of npix pixels has uniq
\* distinct colours and edges Canny edge pixels; edge_ratio = edges / npix.
detect_kind(uniq, edges, npix) ==
    LET few_colors == uniq < PixelColorThreshold
        edgy == 100 * edges > EdgeThresholdPct * npix
    IN  IF few_colors /\ edgy THEN "pixel_art" ELSE "illustration"

\* None, as a bounding box.
NoBox == <<>>

\* bbox_from_alpha: abox is the tight box (inclusive corners) around the
\* pixels whose alpha exceeds alpha_threshold, NoBox when there is none.
bbox_from_alpha(pil_img, abox) ==
    IF pil_img.mode # "RGBA" THEN NoBox ELSE abox

\* is_alpha_bbox_meaningful with ">" for ">=" on the trimmed-area ratio.
is_alpha_bbox_meaningful_strict(pil_img, bbox) ==
    LET bw == bbox[3] - bbox[1] + 1
        bh == bbox[4] - bbox[2] + 1
    IN  \/ 20 * (pil_img.w * pil_img.h - bw * bh) > pil_img.w * pil_img.h
        \/ 20 * bw < 19 * pil_img.w
        \/ 20 * bh < 19 * pil_img.h

\* min_trim_ratio is 0.05 = 1/20 and the ratio bound 0.95 = 19/20; on the
\* sizes of the model the double comparisons agree with the exact ones.
is_alpha_bbox_meaningful(pil_img, bbox) ==
    LET x0 == bbox[1]
        y0 == bbox[2]
        x1 == bbox[3]
        y1 == bbox[4]
        img_w == pil_img.w
        img_h == pil_img.h
        original_area == img_w * img_h
        bbox_area == (x1 - x0 + 1) * (y1 - y0 + 1)
        \* trim_ratio >= min_trim_ratio
        trims_enough == 20 * (original_area - bbox_area) >= original_area
        \* width_ratio < 0.95, height_ratio < 0.95
        narrower == 20 * (x1 - x0 + 1) < 19 * img_w
        shorter == 20 * (y1 - y0 + 1) < 19 * img_h
    IN  trims_enough \/ narrower \/ shorter

\* crop_to_bbox without the margin: the box itself.
crop_to_bbox_tight(pil_img, bbox, margin) ==
    crop(pil_img, bbox[1], bbox[2], bbox[3] + 1, bbox[4] + 1)
crop_to_bbox(pil_img, bbox, margin) ==
    LET x0 == Max(0, bbox[1] - margin)
        y0 == Max(0, bbox[2] - margin)
        x1 == Min(pil_img.w - 1, bbox[3] + margin)
        y1 == Min(pil_img.h - 1, bbox[4] + margin)
    IN  crop(pil_img, x0, y0, x1 + 1, y1 + 1)

---------------------------------------------------------------------------
(* SpecTrim: the alpha-trim functions applied to drawn images and boxes.   *)

\* Image sides: small ones, and 20, 21 and 40, where one column is 5% or
\* a little less of the width.
TrimDims == (1..MaxDim) \cup {20, 21, 40}

\* The boxes drawn start at most MaxInset pixels from the left and top.
MaxInset == 2

\* Boxes with inclusive corners inside a w x h image.
TrimBoxes(w, h) ==
    {b \in (0..Min(MaxInset, w - 1)) \X (0..Min(MaxInset, h - 1))
           \X (0..(w - 1)) \X (0..(h - 1)) :
        b[1] <= b[3] /\ b[2] <= b[4]}

InitTrim ==
    /\ fn = ""
    /\ \E w \in TrimDims, h \in TrimDims :
          \E b \in TrimBoxes(w, h) :
             args = [img |-> SourceImage(w, h, "RGBA"), bbox |-> b]
    /\ opt = Null
    /\ ret = Null
    /\ PipeIdle

CallIsAlphaBboxMeaningful ==
    /\ fn = ""
    /\ fn' = "is_alpha_bbox_meaningful"
    /\ opt' = Null
    /\ ret' = is_alpha_bbox_meaningful(args.img, args.bbox)
    /\ UNCHANGED <<args, pipeVars>>

CallCropToBbox ==
    /\ fn = ""
    /\ \E margin \in 0..MaxInset :
          /\ fn' = "crop_to_bbox"
          /\ opt' = [margin |-> margin]
          /\ ret' = Return(crop_to_bbox(args.img, args.bbox, margin), <<>>)
    /\ UNCHANGED <<args, pipeVars>>

NextTrim ==
    \/ CallIsAlphaBboxMeaningful
    \/ CallCropToBbox

SpecTrim == InitTrim /\ [][NextTrim]_vars

\* C8: is_alpha_bbox_meaningful returns false exactly when the bbox removes
\* less than 5% of the image area and both bbox_width/image_width and
\* bbox_height/image_height are >= 0.95, and true otherwise (100x100
\* trimmed to 99x100 gives false, to 60x60 true, the whole image false).
C8_MeaningfulTrim ==
    /\ ~is_alpha_bbox_meaningful(SourceImage(100, 100, "RGBA"),
                                 <<1, 0, 99, 99>>)
    /\ is_alpha_bbox_meaningful(SourceImage(100, 100, "RGBA"),
                                <<20, 20, 79, 79>>)
    /\ ~is_alpha_bbox_meaningful(SourceImage(100, 100, "RGBA"),
                                 <<0, 0, 99, 99>>)
    /\ (fn = "is_alpha_bbox_meaningful") =>
          LET w == args.img.w
              h == args.img.h
              bw == args.bbox[3] - args.bbox[1] + 1
              bh == args.bbox[4] - args.bbox[2] + 1
              removed == w * h - bw * bh
          IN  (ret = FALSE) <=>
                 /\ 100 * removed < 5 * (w * h)
                 /\ 100 * bw >= 95 * w
                 /\ 100 * bh >= 95 * h

\* The function has returned false for a box that is smaller than the
\* image (one column of a 21-wide image trimmed).
C8_Witness ==
    /\ fn = "is_alpha_bbox_meaningful"
    /\ args.img.w = 21
    /\ args.bbox[3] - args.bbox[1] + 1 = 20
    /\ ret = FALSE

---------------------------------------------------------------------------
(* size_utils.py                                                           *)

\* The loop of round_to_power_of_two: the least power of two >= value.
RECURSIVE shift_up(_, _)
shift_up(power, value) ==
    IF power < value THEN shift_up(2 * power, value) ELSE power

round_to_power_of_two(value) ==
    LET power == shift_up(1, value)
    IN  IF value <= 0 THEN 1
        ELSE IF power - value < value - (power \div 2) THEN power
        ELSE IF power \div 2 > 0 THEN power \div 2 ELSE 1

---------------------------------------------------------------------------
(* SpecSize: the size calculations applied to drawn values.                *)

\* Values are drawn from -1..MaxValue.
MaxValue == 130

InitSize ==
    /\ fn = ""
    /\ args \in [value : (0 - 1)..MaxValue]
    /\ opt = Null
    /\ ret = Null
    /\ PipeIdle

CallRoundToPowerOfTwo ==
    /\ fn = ""
    /\ fn' = "round_to_power_of_two"
    /\ opt' = Null
    /\ ret' = round_to_power_of_two(args.value)
    /\ UNCHANGED <<args, pipeVars>>

NextSize ==
    \/ CallRoundToPowerOfTwo

SpecSize == InitSize /\ [][NextSize]_vars

PowersOfTwo == {1, 2, 4, 8, 16, 32, 64, 128, 256, 512}

Abs(x) == IF x >= 0 THEN x ELSE 0 - x

\* C9: round_to_power_of_two(v) returns, for every v >= 1, the power of
\* two numerically closest to v (100 gives 128, 65 gives 64, a power of
\* two gives itself), and the larger one when v is exactly halfway between
\* two adjacent powers of two (3, 6, 12, 96).
C9_NearestPowerTieUp ==
    (fn = "round_to_power_of_two" /\ args.value >= 1) =>
        /\ ret \in PowersOfTwo
        /\ \A q \in PowersOfTwo :
              /\ Abs(ret - args.value) <= Abs(q - args.value)
              /\ Abs(ret - args.value) = Abs(q - args.value) => q <= ret

---------------------------------------------------------------------------
(* alpha_fix.py                                                            *)

\* The pairs <<c, a>> of bytes, a >= 1, for which the float32 quotient
\* c / (a / 255), clipped to [0, 255] and truncated to uint8, is one less
\* than min(255, floor(255*c/a)): 255*c/a is an integer and the rounded
\* quotient lies just below it.  For every other pair of bytes with a >= 1
\* the two agree.
UnpremulRoundsBelow ==
  {
    <<1,1>>, <<2,2>>, <<4,4>>, <<5,5>>, <<8,8>>, <<3,9>>, <<6,9>>, <<9,9>>,
    <<10,10>>, <<16,16>>, <<1,17>>, <<2,17>>, <<3,17>>, <<4,17>>, <<5,17>>,
    <<6,17>>, <<7,17>>, <<8,17>>, <<10,17>>, <<11,17>>, <<12,17>>, <<13,17>>,
    <<14,17>>, <<15,17>>, <<16,17>>, <<17,17>>, <<6,18>>, <<12,18>>,
    <<18,18>>, <<19,19>>, <<20,20>>, <<21,21>>, <<32,32>>, <<11,33>>,
    <<22,33>>, <<33,33>>, <<2,34>>, <<4,34>>, <<6,34>>, <<8,34>>, <<10,34>>,
    <<12,34>>, <<14,34>>, <<16,34>>, <<20,34>>, <<22,34>>, <<24,34>>,
    <<26,34>>, <<28,34>>, <<30,34>>, <<32,34>>, <<34,34>>, <<7,35>>,
    <<14,35>>, <<28,35>>, <<35,35>>, <<12,36>>, <<24,36>>, <<36,36>>,
    <<37,37>>, <<38,38>>, <<39,39>>, <<40,40>>, <<41,41>>, <<42,42>>,
    <<64,64>>, <<13,65>>, <<26,65>>, <<39,65>>, <<52,65>>, <<65,65>>,
    <<22,66>>, <<44,66>>, <<66,66>>, <<67,67>>, <<4,68>>, <<8,68>>,
    <<12,68>>, <<16,68>>, <<20,68>>, <<24,68>>, <<28,68>>, <<32,68>>,
    <<40,68>>, <<44,68>>, <<48,68>>, <<52,68>>, <<56,68>>, <<60,68>>,
    <<64,68>>, <<68,68>>, <<23,69>>, <<46,69>>, <<69,69>>, <<14,70>>,
    <<28,70>>, <<56,70>>, <<70,70>>, <<71,71>>, <<24,72>>, <<48,72>>,
    <<72,72>>, <<73,73>>, <<74,74>>, <<15,75>>, <<30,75>>, <<35,75>>,
    <<55,75>>, <<60,75>>, <<65,75>>, <<70,75>>, <<75,75>>, <<76,76>>,
    <<77,77>>, <<78,78>>, <<79,79>>, <<80,80>>, <<81,81>>, <<82,82>>,
    <<83,83>>, <<84,84>>, <<128,128>>, <<43,129>>, <<86,129>>, <<129,129>>,
    <<26,130>>, <<52,130>>, <<78,130>>, <<104,130>>, <<130,130>>,
    <<131,131>>, <<44,132>>, <<88,132>>, <<132,132>>, <<133,133>>,
    <<134,134>>, <<27,135>>, <<45,135>>, <<54,135>>, <<63,135>>, <<81,135>>,
    <<90,135>>, <<99,135>>, <<108,135>>, <<117,135>>, <<126,135>>,
    <<135,135>>, <<8,136>>, <<16,136>>, <<24,136>>, <<32,136>>, <<40,136>>,
    <<48,136>>, <<56,136>>, <<64,136>>, <<80,136>>, <<88,136>>, <<96,136>>,
    <<104,136>>, <<112,136>>, <<120,136>>, <<128,136>>, <<136,136>>,
    <<137,137>>, <<46,138>>, <<92,138>>, <<138,138>>, <<139,139>>,
    <<28,140>>, <<56,140>>, <<112,140>>, <<140,140>>, <<47,141>>, <<94,141>>,
    <<141,141>>, <<142,142>>, <<143,143>>, <<48,144>>, <<96,144>>,
    <<144,144>>, <<29,145>>, <<58,145>>, <<116,145>>, <<145,145>>,
    <<146,146>>, <<147,147>>, <<148,148>>, <<149,149>>, <<30,150>>,
    <<60,150>>, <<70,150>>, <<110,150>>, <<120,150>>, <<130,150>>,
    <<140,150>>, <<150,150>>, <<151,151>>, <<152,152>>, <<9,153>>,
    <<15,153>>, <<18,153>>, <<30,153>>, <<33,153>>, <<36,153>>, <<60,153>>,
    <<63,153>>, <<66,153>>, <<69,153>>, <<72,153>>, <<75,153>>, <<117,153>>,
    <<120,153>>, <<123,153>>, <<126,153>>, <<129,153>>, <<132,153>>,
    <<135,153>>, <<138,153>>, <<141,153>>, <<144,153>>, <<147,153>>,
    <<150,153>>, <<153,153>>, <<154,154>>, <<31,155>>, <<62,155>>,
    <<124,155>>, <<155,155>>, <<156,156>>, <<157,157>>, <<158,158>>,
    <<159,159>>, <<160,160>>, <<161,161>>, <<162,162>>, <<163,163>>,
    <<164,164>>, <<77,165>>, <<154,165>>, <<165,165>>, <<166,166>>,
    <<167,167>>, <<168,168>>, <<169,169>>
  }

\* rgb / np.clip(a, 1e-5, 1.0) in float32, truncated by astype(uint8),
\* without the np.clip(rgb, 0, 255) before it.
unpremultiply_channel_unclipped(c, a) ==
    IF a > 0 THEN (255 * c) \div a ELSE c

\* One colour byte c of a pixel with alpha byte a: a / 255 > 1e-5 holds
\* for every a >= 1.
unpremultiply_channel(c, a) ==
    IF a > 0
    THEN IF <<c, a>> \in UnpremulRoundsBelow
         THEN Min(255, (255 * c) \div a) - 1
         ELSE Min(255, (255 * c) \div a)
    ELSE c

\* unpremultiply_rgba on the pixels of an image: elementwise on RGBA,
\* the image itself in any other mode.
unpremultiply_pixels(mode, px) ==
    IF mode # "RGBA" THEN px
    ELSE [i \in DOMAIN px |->
            <<unpremultiply_channel(px[i][1], px[i][4]),
              unpremultiply_channel(px[i][2], px[i][4]),
              unpremultiply_channel(px[i][3], px[i][4]),
              px[i][4]>>]

\* unpremultiply_rgba, defringe_alpha and smooth_alpha_edges on the
\* geometry of an image: the pixels of an RGBA image are processed in
\* place, any other image is returned as it is.
unpremultiply_rgba(pil_img) ==
    IF pil_img.mode # "RGBA" THEN pil_img
    ELSE [pil_img EXCEPT !.ops = Append(@, "unpremultiply")]

defringe_alpha(pil_img, radius) ==
    IF pil_img.mode # "RGBA" THEN pil_img
    ELSE [pil_img EXCEPT !.ops = Append(@, "defringe")]

smooth_alpha_edges(pil_img) ==
    IF pil_img.mode # "RGBA" THEN pil_img
    ELSE [pil_img EXCEPT !.ops = Append(@, "smooth_alpha")]

---------------------------------------------------------------------------
(* SpecAlpha: unpremultiply_rgba applied to drawn pixels.                  *)

\* Byte values the channels of the drawn pixels take.
ChannelSamples == {0, 1, 17, 128, 254, 255}

RGBAPixels ==
    ChannelSamples \X ChannelSamples \X ChannelSamples \X ChannelSamples
RGBPixels == ChannelSamples \X ChannelSamples \X ChannelSamples

InitAlpha ==
    /\ fn = ""
    /\ \/ \E p \in RGBAPixels : args = [mode |-> "RGBA", px |-> <<p>>]
       \/ \E p \in RGBPixels : args = [mode |-> "RGB", px |-> <<p>>]
    /\ opt = Null
    /\ ret = Null
    /\ PipeIdle

CallUnpremultiply ==
    /\ fn = ""
    /\ fn' = "unpremultiply_rgba"
    /\ opt' = Null
    /\ ret' = unpremultiply_pixels(args.mode, args.px)
    /\ UNCHANGED <<args, pipeVars>>

NextAlpha ==
    \/ CallUnpremultiply

SpecAlpha == InitAlpha /\ [][NextAlpha]_vars

\* C10: unpremultiply_rgba returns every pixel whose alpha is 255 unchanged
\* and every pixel whose alpha is 0 unchanged (an alpha-0 pixel with RGB
\* (0,0,0) stays (0,0,0)); the alpha of a pixel is never changed and every
\* output RGB component lies in [0,255].
C10_UnpremultiplyGuards ==
    (fn = "unpremultiply_rgba" /\ args.mode = "RGBA") =>
        \A i \in DOMAIN args.px :
            LET p == args.px[i]
                q == ret[i]
            IN  /\ p[4] = 255 => q = p
                /\ p[4] = 0 => q = p
                /\ q[4] = p[4]
                /\ \A c \in 1..3 : q[c] >= 0 /\ q[c] <= 255

\* A pixel with a colour byte above its alpha byte has been processed and
\* that colour saturated.
C10_Witness ==
    /\ fn = "unpremultiply_rgba" /\ args.mode = "RGBA"
    /\ args.px[1][4] = 17 /\ args.px[1][1] = 128
    /\ ret[1][1] = 255

---------------------------------------------------------------------------
(* io.py and enhance.py                                                    *)

\* load_image_rgba on a decodable file: P and L become RGBA, RGB stays
\* RGB, RGBA stays RGBA, any other mode becomes RGBA.
load_image_rgba(file) ==
    SourceImage(file.w, file.h,
                IF file.mode \in {"P", "L"} THEN "RGBA"
                ELSE IF file.mode = "RGB" THEN "RGB"
                ELSE "RGBA")

\* unsharp_mask(img, radius, amount, rgb_only), amount in tenths: the
\* colour channels alone are sharpened when rgb_only is set on an RGBA
\* image, all channels otherwise.
unsharp_mask(pil_img, amount, rgb_only) ==
    LET channels == IF rgb_only /\ pil_img.mode = "RGBA" THEN "rgb" ELSE "all"
    IN  [pil_img EXCEPT !.ops = Append(@, IF channels = "rgb"
                                          THEN IF amount = 2
                                               THEN "unsharp_mask:0.2:rgb"
                                               ELSE "unsharp_mask:0.1:rgb"
                                          ELSE IF amount = 2
                                               THEN "unsharp_mask:0.2:all"
                                               ELSE "unsharp_mask:0.1:all")]

---------------------------------------------------------------------------
(* pipeline.py: process_one, one action per stage.                         *)

\* None, as an optional integer argument.
None == 0 - 1

\* Source image sides are drawn from 1..MaxSrc and from 22; target sides
\* from 1..MaxTarget and from 15.
MaxSrc == 3
MaxTarget == 3
PipeDims == (1..MaxSrc) \cup {22}
PipeSides == (1..MaxTarget) \cup {15}

\* The default of the target argument.
DefaultTarget == 512

\* The margin process_one passes to crop_to_bbox, and the scale it passes
\* to run_realesrgan.
TrimMargin == 2
SuperResScale == 4

SourceFiles == [w : PipeDims, h : PipeDims, mode : {"RGB", "RGBA", "L"}]

\* Square requests, requests with only one of target_w / target_h given,
\* and requests with both.
TargetArgs ==
    {[target |-> t, target_w |-> None, target_h |-> None] : t \in PipeSides}
    \cup {[target |-> t, target_w |-> 1, target_h |-> None] : t \in PipeSides}
    \cup {[target |-> t, target_w |-> None, target_h |-> 1] : t \in PipeSides}
    \cup {[target |-> DefaultTarget, target_w |-> tw, target_h |-> th] :
             tw \in PipeSides, th \in PipeSides}

Requests ==
    {[src |-> f, target |-> t.target, target_w |-> t.target_w,
      target_h |-> t.target_h, kind |-> kd, superres |-> sr,
      log_jsonl |-> lg] :
        f \in SourceFiles, t \in TargetArgs, kd \in Kinds,
        sr \in {"none", "realesrgan"}, lg \in BOOLEAN}

\* Alpha boxes of a w x h image: none, or the image less an inset at the
\* left and top and an inset at the right and bottom.
AlphaBoxes(w, h) ==
    {NoBox} \cup
    {b \in {<<i, i, w - 1 - j, h - 1 - j>> : i \in {0, 3}, j \in {0, 3}} :
        b[1] <= b[3] /\ b[2] <= b[4]}

\* The target determined at pipeline.py:89-96.
is_square == req.target_w = None \/ req.target_h = None
final_w == IF is_square THEN req.target ELSE req.target_w
final_h == IF is_square THEN req.target ELSE req.target_h

Init ==
    /\ fn = "" /\ args = Null /\ opt = Null /\ ret = Null
    /\ pc = "load"
    /\ req \in Requests
    /\ pil = Null /\ k = "" /\ meta = Null /\ exc = ""
    /\ trace = <<>>
    /\ files = [dst |-> Null, tmp_in |-> Null, tmp_out |-> Null]
    /\ log = <<>>
    /\ outcome = Null
    /\ procs = <<>>

\* An exception raised inside the try block: control goes to the handler.
Fail(e) ==
    /\ pc' = "except"
    /\ exc' = e

Load ==
    /\ pc = "load"
    /\ \/ /\ Fail("cannot identify image file")
          /\ UNCHANGED <<pil, meta, trace>>
       \/ /\ pil' = load_image_rgba(req.src)
          /\ meta' = [src |-> "src", w |-> req.src.w, h |-> req.src.h]
          /\ trace' = Append(trace, "load")
          /\ pc' = "resolve_kind"
          /\ UNCHANGED exc
    /\ UNCHANGED <<harnessVars, procs, req, k, files, log, outcome>>

ResolveKind ==
    /\ pc = "resolve_kind"
    /\ \E uniq \in {79, 80}, edges \in {12, 13} :
          k' = IF req.kind = "auto" THEN detect_kind(uniq, edges, 100)
               ELSE req.kind
    /\ meta' = meta @@ [kind |-> k']
    /\ trace' = Append(trace, "resolve_kind")
    /\ pc' = "trim"
    /\ UNCHANGED <<harnessVars, procs, req, pil, exc, files, log, outcome>>

Trim ==
    /\ pc = "trim"
    /\ \E abox \in AlphaBoxes(pil.w, pil.h) :
          LET bbox == bbox_from_alpha(pil, abox)
          IN  IF bbox # NoBox /\ is_alpha_bbox_meaningful(pil, bbox)
              THEN /\ pil' = crop_to_bbox(pil, bbox, TrimMargin)
                   /\ meta' = meta @@ [bbox |-> bbox, trimmed |-> TRUE]
              ELSE /\ pil' = pil
                   /\ meta' = meta @@ [bbox |-> <<0, 0, pil.w - 1, pil.h - 1>>,
                                       trimmed |-> FALSE]
    /\ trace' = Append(trace, "trim")
    /\ pc' = "unpremultiply"
    /\ UNCHANGED <<harnessVars, procs, req, k, exc, files, log, outcome>>

Unpremultiply ==
    /\ pc = "unpremultiply"
    /\ pil' = unpremultiply_rgba(pil)
    /\ trace' = Append(trace, "unpremultiply")
    /\ pc' = "defringe"
    /\ UNCHANGED <<harnessVars, procs, req, k, meta, exc, files, log, outcome>>

Defringe ==
    /\ pc = "defringe"
    /\ IF k = "pixel_art"
       THEN /\ pil' = defringe_alpha(pil, 1)
            /\ trace' = Append(trace, "defringe")
       ELSE UNCHANGED <<pil, trace>>
    /\ pc' = "scale"
    /\ UNCHANGED <<harnessVars, procs, req, k, meta, exc, files, log, outcome>>

\* The integer factor process_one scales pixel art by.
scale_factor(img) ==
    IF is_square THEN choose_integer_scale(<<img.w, img.h>>, req.target)
    ELSE choose_integer_scale(<<Max(img.w, img.h), Max(img.w, img.h)>>,
                              Max(final_w, final_h))

Scale ==
    /\ pc = "scale"
    /\ IF k = "pixel_art"
       THEN /\ pil' = resize_nearest(pil, scale_factor(pil))
            /\ trace' = Append(trace, "scale")
            /\ pc' = "fit"
       ELSE /\ UNCHANGED <<pil, trace>>
            /\ pc' = "superres"
    /\ UNCHANGED <<harnessVars, procs, req, k, meta, exc, files, log, outcome>>

\* What run_realesrgan and the reload of its output can do: return with
\* the output file written and read, raise in the tool (no binary, no
\* input file, non-zero exit code, no output file, timeout), or raise in
\* load_image_rgba on an output file that does not decode.
SuperResOutcomes ==
    {"ok", "not found", "input file not found", "failed (code)",
     "did not produce output file", "timed out",
     "cannot identify image file"}

\* The file the tool writes: the input scaled by SuperResScale.
superres_output(img) ==
    [SourceImage(SuperResScale * img.w, SuperResScale * img.h, img.mode)
        EXCEPT !.filters = img.filters \cup {"REALESRGAN"}, !.ops = img.ops]

\* What the environment decides in a run_realesrgan call: whether
\* get_realesrgan_path finds a binary, how the process ends, and whether it
\* has written an output file, readable as an image or not.
ToolEnvs ==
    [binary : BOOLEAN, result : {"exit 0", "exit 1", "timeout"},
     wrote : BOOLEAN, readable : BOOLEAN]

\* run_realesrgan retrying once after a timeout.
run_realesrgan_retrying(input, output, env) ==
    LET written == IF ~env.wrote THEN Null
                   ELSE IF env.readable THEN superres_output(input)
                   ELSE [unreadable |-> TRUE]
        cmd == "realesrgan-ncnn-vulkan"
    IN  IF ~env.binary
        THEN [err |-> "not found", procs |-> <<>>, output |-> output]
        ELSE IF input = Null
        THEN [err |-> "input file not found", procs |-> <<>>,
              output |-> output]
        ELSE IF env.result = "timeout"
        THEN [err |-> IF written = Null THEN "did not produce output file"
                      ELSE "",
              procs |-> <<cmd, cmd>>, output |-> written]
        ELSE IF env.result = "exit 1"
        THEN [err |-> "failed (code)", procs |-> <<cmd>>, output |-> written]
        ELSE IF written = Null
        THEN [err |-> "did not produce output file", procs |-> <<cmd>>,
              output |-> Null]
        ELSE [err |-> "", procs |-> <<cmd>>, output |-> written]

\* run_realesrgan(input_path, output_path): input and output are the files
\* at the two paths before the call (Null when absent).  The result is the
\* error raised ("" when none), the processes started, and the file at
\* output_path after the call.
run_realesrgan(input, output, env) ==
    LET written == IF ~env.wrote THEN Null
                   ELSE IF env.readable THEN superres_output(input)
                   ELSE [unreadable |-> TRUE]
        cmd == "realesrgan-ncnn-vulkan"
    IN  IF ~env.binary
        THEN [err |-> "not found", procs |-> <<>>, output |-> output]
        ELSE IF input = Null
        THEN [err |-> "input file not found", procs |-> <<>>,
              output |-> output]
        ELSE IF env.result = "timeout"
        THEN [err |-> "timed out", procs |-> <<cmd>>, output |-> written]
        ELSE IF env.result = "exit 1"
        THEN [err |-> "failed (code)", procs |-> <<cmd>>, output |-> written]
        ELSE IF written = Null
        THEN [err |-> "did not produce output file", procs |-> <<cmd>>,
              output |-> Null]
        ELSE [err |-> "", procs |-> <<cmd>>, output |-> written]

\* pipeline.py:145-158: the image is saved at tmp_in, the tool is run, its
\* output is loaded from tmp_out, and both files are removed.
SuperRes ==
    /\ pc = "superres"
    /\ IF req.superres = "realesrgan"
       THEN \E env \in ToolEnvs :
               LET r == run_realesrgan(pil, files.tmp_out, env)
                   e == IF r.err # "" THEN r.err
                        ELSE IF "unreadable" \in DOMAIN r.output
                        THEN "cannot identify image file"
                        ELSE ""
               IN  /\ procs' = procs \o r.procs
                   /\ IF e = ""
                      THEN /\ pil' = r.output
                           /\ files' = [files EXCEPT !.tmp_in = Null,
                                                     !.tmp_out = Null]
                           /\ trace' = Append(trace, "superres")
                           /\ pc' = "fit"
                           /\ UNCHANGED exc
                      ELSE /\ files' = [files EXCEPT !.tmp_in = pil,
                                                     !.tmp_out = r.output]
                           /\ Fail(e)
                           /\ UNCHANGED <<pil, trace>>
       ELSE /\ pc' = "fit"
            /\ UNCHANGED <<pil, files, trace, exc, procs>>
    /\ UNCHANGED <<harnessVars, req, k, meta, log, outcome>>

\* The fit to the target: smart_square or fit_to_size, never cropping
\* (fit_to_target), and the square fit applied whatever the request.
fit_to_target_square(img) ==
    smart_square(img, req.target, FALSE, FALSE, NoBox)

fit_to_target(img) ==
    IF is_square
    THEN smart_square(img, req.target, FALSE, FALSE, NoBox)
    ELSE fit_to_size(img, final_w, final_h, FALSE)

Fit ==
    /\ pc = "fit"
    /\ LET r == fit_to_target(pil)
       IN  IF r.err # ""
           THEN /\ Fail(r.err)
                /\ UNCHANGED <<pil, trace>>
           ELSE /\ pil' = r.img
                /\ trace' = Append(trace, "fit")
                /\ pc' = "smooth"
                /\ UNCHANGED exc
    /\ UNCHANGED <<harnessVars, procs, req, k, meta, files, log, outcome>>

\* Smooth, applied whatever the resolved kind.
SmoothAnyKind ==
    /\ pc = "smooth"
    /\ pil' = smooth_alpha_edges(pil)
    /\ trace' = Append(trace, "smooth")
    /\ pc' = "sharpen"
    /\ UNCHANGED <<harnessVars, procs, req, k, meta, exc, files, log, outcome>>
Smooth ==
    /\ pc = "smooth"
    /\ IF k = "pixel_art"
       THEN UNCHANGED <<pil, trace>>
       ELSE /\ pil' = smooth_alpha_edges(pil)
            /\ trace' = Append(trace, "smooth")
    /\ pc' = "sharpen"
    /\ UNCHANGED <<harnessVars, procs, req, k, meta, exc, files, log, outcome>>

Sharpen ==
    /\ pc = "sharpen"
    /\ pil' = IF k = "pixel_art" THEN unsharp_mask(pil, 2, FALSE)
              ELSE unsharp_mask(pil, 1, TRUE)
    /\ trace' = Append(trace, "sharpen")
    /\ pc' = "save"
    /\ UNCHANGED <<harnessVars, procs, req, k, meta, exc, files, log, outcome>>

\* Save, writing the output before the image has been sharpened.
SaveUnsharpened ==
    /\ pc = "sharpen"
    /\ files.dst = Null
    /\ files' = [files EXCEPT !.dst = pil]
    /\ meta' = meta @@ [dst |-> "dst", ok |-> TRUE,
                        final_w |-> pil.w, final_h |-> pil.h]
    /\ trace' = Append(trace, "save")
    /\ UNCHANGED <<harnessVars, procs, pc, req, pil, k, exc, log, outcome>>
Save ==
    /\ pc = "save"
    /\ \/ /\ Fail("cannot write dst")
          /\ UNCHANGED <<files, meta, trace>>
       \/ /\ files' = [files EXCEPT !.dst = pil]
          /\ meta' = meta @@ [dst |-> "dst", ok |-> TRUE,
                              final_w |-> pil.w, final_h |-> pil.h]
          /\ trace' = Append(trace, "save")
          /\ pc' = "log"
          /\ UNCHANGED exc
    /\ UNCHANGED <<harnessVars, procs, req, pil, k, log, outcome>>

Log ==
    /\ pc = "log"
    /\ IF req.log_jsonl
       THEN \/ /\ Fail("cannot write log")
               /\ UNCHANGED <<log, trace>>
            \/ /\ log' = Append(log, meta)
               /\ trace' = Append(trace, "log")
               /\ pc' = "return"
               /\ UNCHANGED exc
       ELSE /\ pc' = "return"
            /\ UNCHANGED <<log, trace, exc>>
    /\ UNCHANGED <<harnessVars, procs, req, pil, k, meta, files, outcome>>

ReturnMeta ==
    /\ pc = "return"
    /\ outcome' = [returned |-> meta]
    /\ pc' = "done"
    /\ UNCHANGED <<harnessVars, procs, req, pil, k, meta, exc, trace, files, log>>

\* The except block: the error record is logged when a log is given (a
\* failure of that write is swallowed) and RuntimeError("<src>: <e>") is
\* raised.
Except ==
    /\ pc = "except"
    /\ IF req.log_jsonl
       THEN \/ log' = Append(log, [src |-> "src", error |-> exc, ok |-> FALSE])
            \/ UNCHANGED log
       ELSE UNCHANGED log
    /\ outcome' = [raised |-> "RuntimeError", message |-> <<"src", exc>>]
    /\ pc' = "done"
    /\ UNCHANGED <<harnessVars, procs, req, pil, k, meta, exc, trace, files>>

Next ==
    \/ Load
    \/ ResolveKind
    \/ Trim
    \/ Unpremultiply
    \/ Defringe
    \/ Scale
    \/ SuperRes
    \/ Fit
    \/ Smooth
    \/ Sharpen
    \/ Save
    \/ Log
    \/ ReturnMeta
    \/ Except

Spec == Init /\ [][Next]_vars

---------------------------------------------------------------------------
(* Claims about process_one (checked under Spec).                          *)

\* The call has returned its metadata record.
Returned == pc = "done" /\ "returned" \in DOMAIN outcome

\* C5: every successful process_one call with positive target sizes saves
\* an image of exactly the requested dimensions and reports them in the
\* metadata: final_w = final_h = target when target_w / target_h are not
\* both given, (target_w, target_h) when both are; for both kinds and for
\* sources smaller or larger than the target.
C5_ExactOutputSize ==
    Returned =>
        LET both == req.target_w # None /\ req.target_h # None
            want_w == IF both THEN req.target_w ELSE req.target
            want_h == IF both THEN req.target_h ELSE req.target
        IN  /\ files.dst # Null
            /\ files.dst.w = want_w /\ files.dst.h = want_h
            /\ outcome.returned.ok = TRUE
            /\ outcome.returned.final_w = want_w
            /\ outcome.returned.final_h = want_h

\* An illustration larger than a non-square box on one axis and smaller
\* on the other has been processed and its record returned.
C5_Witness ==
    /\ Returned
    /\ k = "illustration"
    /\ req.target_w = 15 /\ req.target_h = 2
    /\ req.src.w = 22 /\ req.src.h = 1
    /\ files.dst.w = 15 /\ files.dst.h = 2

\* The image process_one scales: the loaded source, cropped when the
\* metadata says it was trimmed.
PostTrim ==
    IF meta.trimmed
    THEN crop_to_bbox(load_image_rgba(req.src), meta.bbox, TrimMargin)
    ELSE load_image_rgba(req.src)

\* C6: in square mode, for a pixel-art image whose post-trim width and
\* height do not exceed target, process_one produces a target x target
\* output whose content region has dimensions (sf*w, sf*h) with
\* sf = choose_integer_scale((w,h), target), obtained by nearest-neighbour
\* scaling only, with no Lanczos resampling (37x52 with target 256 gives a
\* 148x208 region in a 256x256 canvas).
C6_PixelArtIntegerMultiple ==
    /\ LET sf == choose_integer_scale(<<37, 52>>, 256)
           r == smart_square(resize_nearest(SourceImage(37, 52, "RGBA"), sf),
                             256, FALSE, FALSE, NoBox)
       IN  /\ r.err = ""
           /\ r.img.w = 256 /\ r.img.h = 256
           /\ r.img.cw = 148 /\ r.img.ch = 208
           /\ r.img.filters = {"NEAREST"}
    /\ (/\ Returned /\ k = "pixel_art"
        /\ (req.target_w = None \/ req.target_h = None)
        /\ PostTrim.w <= req.target /\ PostTrim.h <= req.target) =>
          LET w == PostTrim.w
              h == PostTrim.h
              t == req.target
              sf == Max(1, Min(t \div w, t \div h))
              out == files.dst
          IN  /\ out.w = t /\ out.h = t
              /\ out.cw = sf * w /\ out.ch = sf * h
              /\ out.filters \subseteq {"NEAREST"}

\* A 2 x 3 pixel-art source has been scaled by 5 into a 15 x 15 output.
C6_Witness ==
    /\ Returned /\ k = "pixel_art"
    /\ req.target_w = None /\ req.target_h = None /\ req.target = 15
    /\ req.src.w = 2 /\ req.src.h = 3
    /\ files.dst.cw = 10 /\ files.dst.ch = 15
    /\ files.dst.filters = {"NEAREST"}

---------------------------------------------------------------------------
(* The alpha channel of an output whose source was opaque.                 *)

Range(s) == {s[i] : i \in DOMAIN s}

\* The alpha of the content pixels of an image derived from an opaque
\* source: "none" when the image has no alpha channel (mode RGB is kept by
\* load_image_rgba, by resize and by the early returns of smart_square,
\* pad_to_square and fit_to_size), "opaque" when every content pixel has
\* alpha 255, "feathered" when some content pixel has less.  paste gives
\* the content alpha 255 on the RGBA canvas; defringe_alpha dilates alpha
\* and unsharp_mask adds amount * (alpha - blur) >= 0 and clips, so both
\* keep 255; smooth_alpha_edges replaces alpha by its Gaussian blur
\* (sigma 0.5, 5 taps, weights 0.0003 0.1065 0.7866 0.1065 0.0003), so a
\* content pixel next to a pad pixel of alpha 0 drops below 255.
content_alpha(img) ==
    IF img.mode # "RGBA" THEN "none"
    ELSE IF "smooth_alpha" \in Range(img.ops) /\ (img.cw < img.w \/ img.ch < img.h)
         THEN "feathered"
         ELSE "opaque"

\* C11: for any opaque RGB source with no alpha channel, of any size
\* relative to the target and either kind, the image saved by process_one
\* is RGBA and every pixel of its content region has alpha 255.
C11_OpaqueRoundTrip ==
    (Returned /\ req.src.mode = "RGB") =>
        /\ files.dst.mode = "RGBA"
        /\ content_alpha(files.dst) = "opaque"

---------------------------------------------------------------------------
(* size_utils.py: the target size; app.py: the size handed to process_one. *)

\* Python's round() of the quotient n / d, d > 0: the nearest integer, a
\* tie going to the even neighbour.  The double expressions the code
\* rounds (value / multiple, target_w / aspect, target_h * aspect, with
\* aspect = width / height) round to the same integer as the exact
\* quotient for all sides from -2 to 199 and for 1000, 2047, 2048, 3000,
\* 3072, 3073, 4095 and 4096.
round(n, d) ==
    LET q == n \div d
        r == n % d
    IN  IF 2 * r < d THEN q
        ELSE IF 2 * r > d THEN q + 1
        ELSE IF q % 2 = 0 THEN q ELSE q + 1

round_to_multiple(value, multiple) ==
    IF value <= 0 THEN multiple
    ELSE round(value, multiple) * multiple

\* round(target_w / aspect) and round(target_h * aspect), where aspect is
\* width / height (auto_suggest_size) or additionally 1.0 when height <= 0
\* (calculate_target_size).
round_div_aspect(t, width, height) ==
    IF height > 0 THEN round(t * height, width) ELSE t
round_mul_aspect(t, width, height) ==
    IF height > 0 THEN round(t * width, height) ELSE t

FallbackSize == <<256, 256>>
MinShortSide == 8
AutoMultiple == 8

auto_suggest_size(width, height, prefer_power_of_two) ==
    LET long_side == Max(width, height)
        suggested_long == IF prefer_power_of_two
                          THEN round_to_power_of_two(long_side)
                          ELSE round_to_multiple(long_side, AutoMultiple)
        suggested_w == IF width >= height THEN suggested_long
                       ELSE Max(MinShortSide,
                                round_mul_aspect(suggested_long, width, height))
        suggested_h == IF width >= height
                       THEN Max(MinShortSide,
                                round_div_aspect(suggested_long, width, height))
                       ELSE suggested_long
    IN  IF width <= 0 \/ height <= 0 THEN FallbackSize
        ELSE <<round_to_multiple(suggested_w, AutoMultiple),
               round_to_multiple(suggested_h, AutoMultiple)>>

\* calculate_target_size: [err, size], err the exception raised if any.
calculate_target_size(width, height, mode, custom_width, custom_height, multiple) ==
    LET long_side == Max(width, height)
        long_p2 == round_to_power_of_two(long_side)
        long_m == round_to_multiple(long_side, multiple)
    IN  IF mode = "custom"
        THEN IF custom_width = None \/ custom_height = None
             THEN [err |-> "ValueError", size |-> <<>>]
             ELSE [err |-> "", size |-> <<custom_width, custom_height>>]
        ELSE IF mode = "power_of_two"
        THEN [err |-> "",
              size |-> IF width >= height
                       THEN <<long_p2,
                              Max(MinShortSide, round_to_power_of_two(
                                  round_div_aspect(long_p2, width, height)))>>
                       ELSE <<Max(MinShortSide, round_to_power_of_two(
                                  round_mul_aspect(long_p2, width, height))),
                              long_p2>>]
        ELSE IF mode = "multiple"
        THEN [err |-> "",
              size |-> IF width >= height
                       THEN <<long_m,
                              Max(multiple, round_to_multiple(
                                  round_div_aspect(long_m, width, height),
                                  multiple))>>
                       ELSE <<Max(multiple, round_to_multiple(
                                  round_mul_aspect(long_m, width, height),
                                  multiple)),
                              long_m>>]
        ELSE [err |-> "", size |-> auto_suggest_size(width, height, TRUE)]

\* app.py, process: the (target_w, target_h) passed to process_one, or the
\* HTTP error raised before the call.  size_multiple stands for the parsed
\* form field; a value outside {2, 4, 8, 16} is replaced by the default.
SizeLimit == 4096
DefaultMultiple == 8
AllowedMultiples == {2, 4, 8, 16}

process_target_size(size_mode, input_w, input_h, size_width, size_height, size_multiple) ==
    LET multiple_val == IF size_multiple \in AllowedMultiples
                        THEN size_multiple ELSE DefaultMultiple
    IN  IF size_mode = "square" THEN [err |-> "", size |-> <<None, None>>]
        ELSE IF size_mode = "custom"
        THEN IF size_width = None \/ size_height = None
             THEN [err |-> "HTTP 400", size |-> <<>>]
             ELSE IF \/ size_width < 1 \/ size_width > SizeLimit
                     \/ size_height < 1 \/ size_height > SizeLimit
             THEN [err |-> "HTTP 400", size |-> <<>>]
             ELSE [err |-> "", size |-> <<size_width, size_height>>]
        ELSE calculate_target_size(input_w, input_h, size_mode, None, None,
                                   multiple_val)

---------------------------------------------------------------------------
(* SpecTarget: the size calculations applied to drawn dimensions.          *)

\* Widths and heights are drawn from -1..MaxInput and from LargeInputs.
MaxInput == 12
LargeInputs == {20, 100, 4096}
InputSides == ((0 - 1)..MaxInput) \cup LargeInputs

SizeModes == {"square", "auto", "power_of_two", "multiple", "custom"}
CustomSides == {None, 0, 1, SizeLimit, SizeLimit + 1}

InitTarget ==
    /\ fn = ""
    /\ args \in [width : InputSides, height : InputSides, mode : SizeModes,
                 multiple : AllowedMultiples \cup {3},
                 custom_width : CustomSides, custom_height : {None, 1}]
    /\ opt = Null
    /\ ret = Null
    /\ PipeIdle

\* round_to_multiple(value, multiple): the value is the drawn width.
CallRoundToMultiple ==
    /\ fn = ""
    /\ fn' = "round_to_multiple"
    /\ opt' = Null
    /\ ret' = round_to_multiple(args.width, args.multiple)
    /\ UNCHANGED <<args, pipeVars>>

CallAutoSuggestSize ==
    /\ fn = ""
    /\ \E prefer \in BOOLEAN :
          /\ fn' = "auto_suggest_size"
          /\ opt' = [prefer_power_of_two |-> prefer]
          /\ ret' = auto_suggest_size(args.width, args.height, prefer)
    /\ UNCHANGED <<args, pipeVars>>

CallCalculateTargetSize ==
    /\ fn = ""
    /\ args.mode # "square"
    /\ fn' = "calculate_target_size"
    /\ opt' = Null
    /\ ret' = calculate_target_size(args.width, args.height, args.mode,
                                    args.custom_width, args.custom_height,
                                    args.multiple)
    /\ UNCHANGED <<args, pipeVars>>

\* The uploaded file decodes to an image, whose sides are positive.
CallProcess ==
    /\ fn = ""
    /\ args.width >= 1 /\ args.height >= 1
    /\ fn' = "process"
    /\ opt' = Null
    /\ ret' = process_target_size(args.mode, args.width, args.height,
                                  args.custom_width, args.custom_height,
                                  args.multiple)
    /\ UNCHANGED <<args, pipeVars>>

NextTarget ==
    \/ CallRoundToMultiple
    \/ CallAutoSuggestSize
    \/ CallCalculateTargetSize
    \/ CallProcess

SpecTarget == InitTarget /\ [][NextTarget]_vars

\* C12: for every input width and height in [1,4096] and every mode (auto,
\* power_of_two, multiple with factor in {2,4,8,16}, custom), the target
\* size handed to the pipeline is a pair of positive integers, each in
\* [1,4096]; neither dimension is ever 0.
C12_TargetSizeInRange ==
    (/\ fn = "process" /\ ret.err = "" /\ args.mode # "square"
     /\ args.width <= SizeLimit /\ args.height <= SizeLimit) =>
        /\ ret.size[1] \in 1..SizeLimit
        /\ ret.size[2] \in 1..SizeLimit

\* C13: for degenerate input dimensions (width <= 0 or height <= 0),
\* calculate_target_size returns the fixed fallback (256, 256) in every
\* derived mode (auto, power_of_two, multiple).
C13_DegenerateFallback ==
    (/\ fn = "calculate_target_size"
     /\ args.mode \in {"auto", "power_of_two", "multiple"}
     /\ (args.width <= 0 \/ args.height <= 0)) =>
        ret = [err |-> "", size |-> <<256, 256>>]

\* The multiple of d nearest to n, a tie going away from zero (n >= 0).
round_half_away(n, d) == ((2 * n + d) \div (2 * d)) * d

\* C14: in multiple mode, round_to_multiple(v, m) returns the multiple of
\* m nearest to v with ties rounded half away from zero (v=20, m=8 gives
\* 24; v=4, m=8 gives 8; v=12, m=8 gives 16), and calculate_target_size
\* returns two multiples of m, the short side being at least m.
C14_RoundToMultiple ==
    /\ round_to_multiple(20, 8) = 24
    /\ round_to_multiple(4, 8) = 8
    /\ round_to_multiple(12, 8) = 16
    /\ (fn = "round_to_multiple" /\ args.width >= 1) =>
          ret = round_half_away(args.width, args.multiple)
    /\ (/\ fn = "calculate_target_size" /\ args.mode = "multiple"
        /\ args.width >= 1 /\ args.height >= 1) =>
          /\ ret.size[1] % args.multiple = 0
          /\ ret.size[2] % args.multiple = 0
          /\ (IF args.width >= args.height THEN ret.size[2]
              ELSE ret.size[1]) >= args.multiple

---------------------------------------------------------------------------
(* SpecDetect: detect_kind applied to drawn colour and edge counts.        *)

\* Unique-colour counts are drawn within ColorSpread of the threshold.
ColorSpread == 3

\* Sizes of the downscaled sample (10 x 10 and 10 x 20 pixels) and counts
\* of edge pixels, on both sides of 12%.
SampleSizes == {100, 200}
EdgeCounts == {0, 11, 12, 13, 23, 24, 25, 100}

InitDetect ==
    /\ fn = ""
    /\ args \in {a \in [uniq : (PixelColorThreshold - ColorSpread)..
                                (PixelColorThreshold + ColorSpread),
                        edges : EdgeCounts, npix : SampleSizes] :
                    a.edges <= a.npix /\ a.uniq <= a.npix}
    /\ opt = Null
    /\ ret = Null
    /\ PipeIdle

CallDetectKind ==
    /\ fn = ""
    /\ fn' = "detect_kind"
    /\ opt' = Null
    /\ ret' = detect_kind(args.uniq, args.edges, args.npix)
    /\ UNCHANGED <<args, pipeVars>>

NextDetect ==
    \/ CallDetectKind

SpecDetect == InitDetect /\ [][NextDetect]_vars

---------------------------------------------------------------------------
(* The order of the stages of process_one (checked under Spec).            *)

\* The stages in the order of the code of the try block.
StageOrder ==
    <<"load", "resolve_kind", "trim", "unpremultiply", "defringe", "scale",
      "superres", "fit", "smooth", "sharpen", "save", "log">>

StageIndex(s) == CHOOSE i \in DOMAIN StageOrder : StageOrder[i] = s

\* The transform stages every run goes through before it saves.
TransformStages ==
    {"load", "resolve_kind", "trim", "unpremultiply", "fit", "sharpen"}

---------------------------------------------------------------------------
(* The two profiles of process_one (checked under Spec).                   *)

\* The stages have run up to and including the sharpening.
Sharpened == "sharpen" \in Range(trace)

\* C17: the kind is resolved exactly once per run (detect_kind only when
\* kind is auto, an explicit kind used as given) and all later branches
\* follow that single value: defringe, integer nearest-neighbour scaling
\* and full-channel sharpening (amount 0.2) run iff the resolved kind is
\* pixel_art; super-resolution (only when superres is realesrgan),
\* alpha-edge smoothing and RGB-only sharpening (amount 0.1) run iff it is
\* illustration; no run mixes steps of the two profiles, and a pixel_art
\* run never invokes the super-resolution tool even when it is requested.
C17_SingleKindProfile ==
    /\ "resolve_kind" \in Range(trace) =>
          /\ k \in {"pixel_art", "illustration"}
          /\ meta.kind = k
          /\ req.kind # "auto" => k = req.kind
    /\ "resolve_kind" \notin Range(trace) => k = ""
    /\ Range(trace) \cap {"defringe", "scale"} # {} => k = "pixel_art"
    /\ Range(trace) \cap {"superres", "smooth"} # {} => k = "illustration"
    /\ (files.tmp_in # Null \/ files.tmp_out # Null) =>
          k = "illustration" /\ req.superres = "realesrgan"
    /\ (pil # Null /\ "NEAREST" \in pil.filters) => k = "pixel_art"
    /\ (pil # Null /\ "REALESRGAN" \in pil.filters) => k = "illustration"
    /\ Sharpened =>
          IF k = "pixel_art"
          THEN /\ {"defringe", "scale"} \subseteq Range(trace)
               /\ Range(trace) \cap {"superres", "smooth"} = {}
               /\ Range(pil.ops) \cap
                    {"unsharp_mask:0.2:all", "unsharp_mask:0.2:rgb",
                     "unsharp_mask:0.1:all", "unsharp_mask:0.1:rgb",
                     "smooth_alpha"}
                  = {"unsharp_mask:0.2:all"}
          ELSE /\ "smooth" \in Range(trace)
               /\ Range(trace) \cap {"defringe", "scale"} = {}
               /\ "superres" \in Range(trace) <=> req.superres = "realesrgan"
               /\ "defringe" \notin Range(pil.ops)
               /\ Range(pil.ops) \cap
                    {"unsharp_mask:0.2:all", "unsharp_mask:0.2:rgb",
                     "unsharp_mask:0.1:all", "unsharp_mask:0.1:rgb"}
                  = {IF pil.mode = "RGBA" THEN "unsharp_mask:0.1:rgb"
                     ELSE "unsharp_mask:0.1:all"}

\* A source detected as pixel art was processed with super-resolution
\* requested: it was defringed and scaled, and the tool was not invoked.
C17_Witness ==
    /\ Returned
    /\ req.kind = "auto" /\ k = "pixel_art"
    /\ req.superres = "realesrgan"
    /\ req.src.mode = "RGBA"
    /\ "defringe" \in Range(files.dst.ops)
    /\ "NEAREST" \in files.dst.filters
    /\ "REALESRGAN" \notin files.dst.filters

---------------------------------------------------------------------------
(* Failures of process_one (checked under Spec).                           *)

\* The call has raised.
Raised == pc = "done" /\ "raised" \in DOMAIN outcome

\* C18: if any step of process_one fails (the final metadata/log step
\* included), the image is aborted atomically: no later step runs, no
\* output file has been written at dst by that call, and the failure
\* reaches the caller as a RuntimeError whose message contains the source
\* image path; process_one never returns a metadata record with ok = false.
C18_AtomicFailure ==
    /\ exc # "" => pc \in {"except", "done"}
    /\ Raised =>
          /\ exc # ""
          /\ files.dst = Null
          /\ outcome.raised = "RuntimeError"
          /\ outcome.message[1] = "src"
    /\ Returned => outcome.returned.ok = TRUE

\* C19: when super-resolution is requested for an illustration, the
\* temporary input and output files created by process_one no longer exist
\* once process_one has returned or raised, whether or not the
\* super-resolution invocation and the subsequent reload succeeded.
C19_TempFilesRemoved ==
    (pc = "done" /\ k = "illustration" /\ req.superres = "realesrgan") =>
        /\ files.tmp_in = Null
        /\ files.tmp_out = Null

\* The fields every log record is to carry.
RecordFields == {"src", "kind", "trimmed", "final_w", "final_h", "ok"}

\* C20: every call to process_one with log_jsonl set (and a writable log)
\* appends exactly one record to the log, whether the image succeeds or
\* fails, existing records are never modified, and every record, success
\* or failure, contains at least the source path, the detected kind, the
\* trim decision, the final dimensions and the success flag, plus the
\* error text on failure.  (A call that returned has written its record; a
\* call that raised has written at most one, none when the write failed.)
C20_OneCompleteRecord ==
    /\ Len(log) <= 1
    /\ (Returned /\ req.log_jsonl) => Len(log) = 1
    /\ \A i \in DOMAIN log :
          /\ RecordFields \subseteq DOMAIN log[i]
          /\ ~log[i].ok => "error" \in DOMAIN log[i]

---------------------------------------------------------------------------
(* Failures of the super-resolution tool (checked under Spec).             *)

\* The errors run_realesrgan raises for the four failure modes.
ToolFailures ==
    {"not found", "failed (code)", "did not produce output file", "timed out"}

\* C21: each failure mode of the super-resolution tool (binary
\* unavailable, non-zero exit code, output file absent after exit code 0,
\* timeout) makes run_realesrgan raise an error; the external process is
\* started at most once per run_realesrgan call (a timeout is a hard
\* failure, never retried); and process_one for that image then fails with
\* the error recorded instead of continuing with the un-enhanced image.
C21_ToolFailureIsHard ==
    /\ \A env \in ToolEnvs :
          LET r == run_realesrgan(SourceImage(1, 1, "RGBA"), Null, env)
          IN  /\ Len(r.procs) <= 1
              /\ ~env.binary => r.err = "not found" /\ r.procs = <<>>
              /\ (env.binary /\ env.result = "exit 1") =>
                    r.err = "failed (code)"
              /\ (env.binary /\ env.result = "timeout") =>
                    r.err = "timed out"
              /\ (env.binary /\ env.result = "exit 0" /\ ~env.wrote) =>
                    r.err = "did not produce output file"
    /\ Len(procs) <= 1
    /\ exc \in ToolFailures =>
          /\ pc \in {"except", "done"}
          /\ Range(trace) \cap
                {"superres", "fit", "smooth", "sharpen", "save", "log"} = {}
          /\ files.dst = Null
          /\ pc = "done" =>
                /\ Raised
                /\ outcome.message = <<"src", exc>>
                /\ \A i \in DOMAIN log : ~log[i].ok /\ log[i].error = exc

\* The tool timed out in a logged run: it was started once, and the call
\* raised with the timeout recorded.
C21_Witness ==
    /\ Raised
    /\ exc = "timed out"
    /\ Len(procs) = 1
    /\ Len(log) = 1 /\ log[1].error = "timed out"

---------------------------------------------------------------------------
(* SpecConc: two process_one calls run concurrently on illustrations with  *)
(* super-resolution requested.  Each call is followed through its file     *)
(* operations (pipeline.py:148-158 and 178, realesrgan.py:262-309); the    *)
(* two calls share the file system.  pc, req, pil, meta, exc and outcome   *)
(* hold one value per call; files maps a path to the file at it, a record  *)
(* of the call that wrote it and the image it holds.                       *)

Runs == {1, 2}

\* The calls have different sources and different dst paths; the stems of
\* the sources and the directories of the dst paths may coincide.
ConcRequests ==
    {[r \in Runs |->
        IF r = 1
        THEN [src |-> [dir |-> "in1", stem |-> "a"],
              dst |-> [dir |-> "out", name |-> "x1.png"]]
        ELSE [src |-> [dir |-> "in2", stem |-> stem],
              dst |-> [dir |-> dir, name |-> "x2.png"]]] :
        stem \in {"a", "b"}, dir \in {"out", "out2"}}

\* tmp_in = dst.parent / ".__tmp_in_<src.stem>.png", tmp_out likewise.
tmp_in(rq) == <<rq.dst.dir, ".__tmp_in_", rq.src.stem>>
tmp_out(rq) == <<rq.dst.dir, ".__tmp_sr_", rq.src.stem>>
dst_path(rq) == <<rq.dst.dir, "", rq.dst.name>>

ConcPaths(rqs) ==
    UNION {{tmp_in(rqs[r]), tmp_out(rqs[r]), dst_path(rqs[r])} : r \in Runs}

\* The image a call loaded from its source, and the tool's output for an
\* image.
ConcSource(r) == [src |-> r, upscaled |-> FALSE]
ConcUpscaled(img) == [img EXCEPT !.upscaled = TRUE]

\* What a call did to a file another call had written.
Touch(r, file, what) ==
    IF file # Null /\ file.by # r THEN {what} ELSE {}

InitConc ==
    /\ fn = "" /\ args = Null /\ opt = Null /\ ret = Null
    /\ req \in ConcRequests
    /\ pc = [r \in Runs |-> "save_tmp"]
    /\ pil = [r \in Runs |-> ConcSource(r)]
    /\ meta = [r \in Runs |-> {}]
    /\ exc = [r \in Runs |-> ""]
    /\ outcome = [r \in Runs |-> ""]
    /\ files = [p \in ConcPaths(req) |-> Null]
    /\ k = "" /\ trace = <<>> /\ log = <<>> /\ procs = <<>>

ConcIdle == UNCHANGED <<harnessVars, req, k, trace, log, procs>>

\* An exception in call r: the except block re-raises; nothing is removed.
ConcRaise(r, e) ==
    /\ pc' = [pc EXCEPT ![r] = "failed"]
    /\ exc' = [exc EXCEPT ![r] = e]
    /\ outcome' = [outcome EXCEPT ![r] = "raised"]

\* save_image_with_icc(pil, tmp_in, icc)
ConcSaveTmp ==
    \E r \in Runs :
        /\ pc[r] = "save_tmp"
        /\ files' = [files EXCEPT ![tmp_in(req[r])] =
                                      [by |-> r, img |-> pil[r]]]
        /\ meta' = [meta EXCEPT ![r] =
                       @ \cup Touch(r, files[tmp_in(req[r])], "overwrote")]
        /\ pc' = [pc EXCEPT ![r] = "tool_start"]
        /\ UNCHANGED <<pil, exc, outcome>>
        /\ ConcIdle

\* run_realesrgan up to the start of the process: the input must exist,
\* and an existing output file is removed.
ConcToolStart ==
    \E r \in Runs :
        /\ pc[r] = "tool_start"
        /\ IF files[tmp_in(req[r])] = Null
           THEN /\ ConcRaise(r, "input file not found")
                /\ UNCHANGED <<files, meta>>
           ELSE /\ files' = [files EXCEPT ![tmp_out(req[r])] = Null]
                /\ meta' = [meta EXCEPT ![r] =
                               @ \cup Touch(r, files[tmp_out(req[r])],
                                            "deleted")]
                /\ pc' = [pc EXCEPT ![r] = "tool_run"]
                /\ UNCHANGED <<exc, outcome>>
        /\ UNCHANGED pil
        /\ ConcIdle

\* The process: it reads the input file and writes the output file; it
\* exits with an error when the input file is gone.
ConcToolRun ==
    \E r \in Runs :
        /\ pc[r] = "tool_run"
        /\ IF files[tmp_in(req[r])] = Null
           THEN /\ ConcRaise(r, "failed (code)")
                /\ UNCHANGED <<files, meta>>
           ELSE /\ files' = [files EXCEPT ![tmp_out(req[r])] =
                                [by |-> r,
                                 img |-> ConcUpscaled(
                                             files[tmp_in(req[r])].img)]]
                /\ meta' = [meta EXCEPT ![r] =
                               @ \cup Touch(r, files[tmp_in(req[r])], "read")
                                 \cup Touch(r, files[tmp_out(req[r])],
                                            "overwrote")]
                /\ pc' = [pc EXCEPT ![r] = "tool_check"]
                /\ UNCHANGED <<exc, outcome>>
        /\ UNCHANGED pil
        /\ ConcIdle

\* run_realesrgan after the process: the output file must exist.
ConcToolCheck ==
    \E r \in Runs :
        /\ pc[r] = "tool_check"
        /\ IF files[tmp_out(req[r])] = Null
           THEN ConcRaise(r, "did not produce output file")
           ELSE /\ pc' = [pc EXCEPT ![r] = "reload"]
                /\ UNCHANGED <<exc, outcome>>
        /\ UNCHANGED <<pil, files, meta>>
        /\ ConcIdle

\* pil = load_image_rgba(tmp_out)
ConcReload ==
    \E r \in Runs :
        /\ pc[r] = "reload"
        /\ IF files[tmp_out(req[r])] = Null
           THEN /\ ConcRaise(r, "No such file or directory")
                /\ UNCHANGED <<pil, meta>>
           ELSE /\ pil' = [pil EXCEPT ![r] = files[tmp_out(req[r])].img]
                /\ meta' = [meta EXCEPT ![r] =
                               @ \cup Touch(r, files[tmp_out(req[r])], "read")]
                /\ pc' = [pc EXCEPT ![r] = "unlink_in"]
                /\ UNCHANGED <<exc, outcome>>
        /\ UNCHANGED files
        /\ ConcIdle

\* tmp_in.unlink(missing_ok=True)
ConcUnlinkIn ==
    \E r \in Runs :
        /\ pc[r] = "unlink_in"
        /\ files' = [files EXCEPT ![tmp_in(req[r])] = Null]
        /\ meta' = [meta EXCEPT ![r] =
                       @ \cup Touch(r, files[tmp_in(req[r])], "deleted")]
        /\ pc' = [pc EXCEPT ![r] = "unlink_out"]
        /\ UNCHANGED <<pil, exc, outcome>>
        /\ ConcIdle

\* tmp_out.unlink(missing_ok=True)
ConcUnlinkOut ==
    \E r \in Runs :
        /\ pc[r] = "unlink_out"
        /\ files' = [files EXCEPT ![tmp_out(req[r])] = Null]
        /\ meta' = [meta EXCEPT ![r] =
                       @ \cup Touch(r, files[tmp_out(req[r])], "deleted")]
        /\ pc' = [pc EXCEPT ![r] = "save_dst"]
        /\ UNCHANGED <<pil, exc, outcome>>
        /\ ConcIdle

\* save_image_with_icc(pil, dst, icc) and the return.
ConcSaveDst ==
    \E r \in Runs :
        /\ pc[r] = "save_dst"
        /\ files' = [files EXCEPT ![dst_path(req[r])] =
                                      [by |-> r, img |-> pil[r]]]
        /\ meta' = [meta EXCEPT ![r] =
                       @ \cup Touch(r, files[dst_path(req[r])], "overwrote")]
        /\ pc' = [pc EXCEPT ![r] = "done"]
        /\ outcome' = [outcome EXCEPT ![r] = "returned"]
        /\ UNCHANGED <<pil, exc>>
        /\ ConcIdle

NextConc ==
    \/ ConcSaveTmp
    \/ ConcToolStart
    \/ ConcToolRun
    \/ ConcToolCheck
    \/ ConcReload
    \/ ConcUnlinkIn
    \/ ConcUnlinkOut
    \/ ConcSaveDst

SpecConc == InitConc /\ [][NextConc]_vars

\* C22: concurrent process_one runs on different source images with
\* different dst paths are fully independent: under every interleaving no
\* run reads, overwrites or deletes a file that another run created, and
\* each run's output equals what it would produce when run alone, also
\* when the sources share a file stem and the dst paths share a directory.
C22_IndependentRuns ==
    \A r \in Runs :
        /\ meta[r] = {}
        /\ pc[r] # "failed"
        /\ pc[r] = "done" =>
              files[dst_path(req[r])] =
                  [by |-> r, img |-> ConcUpscaled(ConcSource(r))]

---------------------------------------------------------------------------
(* Pixel art in a non-square box (checked under Spec).                     *)

\* C23: in non-square mode (target_w and target_h both given), for a
\* pixel-art image that fits inside the target box, the integer-scaled
\* image (factor choose_integer_scale((long,long), max(target_w,target_h)))
\* still fits inside (target_w, target_h), so fit_to_size only pads it and
\* the content region of the output keeps dimensions that are integer
\* multiples of the source dimensions; no Lanczos downscale is ever
\* applied to pixel art on this path.
C23_NonSquarePixelArtOnlyPadded ==
    (/\ Returned /\ k = "pixel_art"
     /\ req.target_w # None /\ req.target_h # None
     /\ PostTrim.w <= req.target_w /\ PostTrim.h <= req.target_h) =>
        LET w == PostTrim.w
            h == PostTrim.h
            long == Max(w, h)
            sf == choose_integer_scale(<<long, long>>,
                                       Max(req.target_w, req.target_h))
            out == files.dst
        IN  /\ sf * w <= req.target_w /\ sf * h <= req.target_h
            /\ out.cw = sf * w /\ out.ch = sf * h
            /\ out.filters \subseteq {"NEAREST"}

---------------------------------------------------------------------------
(* Cropping (checked under SpecFit).                                       *)

\* The image fit_to_size pads or crops: the input, downscaled when it
\* exceeds the box.
box_fit(pil_img, target_w, target_h) ==
    IF pil_img.w > target_w \/ pil_img.h > target_h
    THEN resize_lanczos_to_box(
             pil_img, fit_dims(pil_img.w, pil_img.h, target_w, target_h))
    ELSE pil_img

C25_FitLongExact ==
    fn = "resize_lanczos_fit_long" =>
        LET w == args.img.w
            h == args.img.h
            t == args.target_w
            out == ret.img
        IN  /\ Max(w, h) <= t => out = args.img
            /\ Max(w, h) > t =>
                  /\ Max(out.w, out.h) = t
                  /\ Min(out.w, out.h) = Max(1, (Min(w, h) * t) \div Max(w, h))
                  /\ Min(out.w, out.h) \in 1..t
                  /\ (w >= h) => out.w = t
                  /\ (w < h) => out.h = t
            /\ Max(out.w, out.h) <= t

---------------------------------------------------------------------------
(* The trimming step of process_one.                                       *)

\* What the claim requires of the trimming step from image pil_img with
\* alpha box abox to image out and metadata md: the crop is applied exactly
\* when there is a box and it is meaningful; the crop is the box widened by
\* 2 pixels on each side and clamped to the image, so it contains the box
\* and is no larger than the image; trimmed says whether the crop was
\* applied; the recorded box is the alpha box when trimmed and the full
\* image otherwise.
TrimmedAsClaimed(pil_img, abox, out, md) ==
    LET b == IF pil_img.mode = "RGBA" THEN abox ELSE NoBox
        go == b # NoBox /\ is_alpha_bbox_meaningful(pil_img, b)
    IN  /\ md.trimmed = go
        /\ go =>
              LET x0 == IF b[1] - 2 < 0 THEN 0 ELSE b[1] - 2
                  y0 == IF b[2] - 2 < 0 THEN 0 ELSE b[2] - 2
                  x1 == IF b[3] + 2 > pil_img.w - 1 THEN pil_img.w - 1
                        ELSE b[3] + 2
                  y1 == IF b[4] + 2 > pil_img.h - 1 THEN pil_img.h - 1
                        ELSE b[4] + 2
              IN  /\ md.bbox = b
                  /\ out.w = x1 - x0 + 1 /\ out.h = y1 - y0 + 1
                  /\ out.sx = x0 /\ out.sy = y0
                  /\ out.cx = 0 /\ out.cy = 0
                  /\ out.cw = out.w /\ out.ch = out.h
                  /\ x0 <= b[1] /\ y0 <= b[2] /\ b[3] <= x1 /\ b[4] <= y1
                  /\ out.w <= pil_img.w /\ out.h <= pil_img.h
        /\ ~go => /\ out = pil_img
                  /\ md.bbox = <<0, 0, pil_img.w - 1, pil_img.h - 1>>

\* C26: process_one trims exactly when bbox_from_alpha returns a box and
\* is_alpha_bbox_meaningful is true for it; the crop is then that box
\* expanded by 2 pixels on each side and clamped to the image bounds, so
\* the cropped image contains the whole box and is never larger than the
\* original; meta.trimmed is true iff the crop was applied, and the
\* recorded bbox always satisfies 0 <= x0 <= x1 < w and 0 <= y0 <= y1 < h
\* for the original dimensions (the full-image box when untrimmed).
C26_TrimDecision ==
    /\ [][pc = "trim" =>
            \E abox \in AlphaBoxes(pil.w, pil.h) :
                TrimmedAsClaimed(pil, abox, pil', meta')]_vars
    /\ [](("trim" \in Range(trace)) =>
            /\ 0 <= meta.bbox[1] /\ meta.bbox[1] <= meta.bbox[3]
            /\ meta.bbox[3] < req.src.w
            /\ 0 <= meta.bbox[2] /\ meta.bbox[2] <= meta.bbox[4]
            /\ meta.bbox[4] < req.src.h
            /\ meta.trimmed <=>
                  /\ load_image_rgba(req.src).mode = "RGBA"
                  /\ is_alpha_bbox_meaningful(load_image_rgba(req.src),
                                              meta.bbox))

\* A 22x22 source whose alpha box starts 3 pixels in at the left and top
\* was trimmed, and process_one returned.
C26_Witness ==
    /\ Returned
    /\ req.src.w = 22 /\ req.src.h = 22
    /\ meta.trimmed
    /\ meta.bbox[1] = 3 /\ meta.bbox[3] = 21

---------------------------------------------------------------------------
(* app.py: the download endpoint.                                          *)

\* A path string is modelled by whether it starts with "/" and by its
\* segments between slashes; a pathlib path by whether it is absolute and
\* by its components; a location in the file system by its components
\* from the root.
MaxParts == 3
Segments == {"..", ".", "app", "etc", "output", "passwd", "a..png"}

RECURSIVE SeqsUpTo(_, _)
SeqsUpTo(S, n) ==
    IF n = 0 THEN {<<>>}
    ELSE LET shorter == SeqsUpTo(S, n - 1)
         IN  shorter \cup {Append(s, x) : s \in shorter, x \in S}

PathStrings == [abs : BOOLEAN, segs : SeqsUpTo(Segments, MaxParts)]

\* OUTPUT_DIR = Path("output"), relative to the working directory of the
\* server process.
OUTPUT_DIR == [abs |-> FALSE, parts |-> <<"output">>]
Cwd == <<"app">>

\* The regular files that may exist: one outside the working directory,
\* one in the working directory, two in the output directory.
Files ==
    {<<"etc", "passwd">>, <<"app", "passwd">>,
     <<"app", "output", "passwd">>, <<"app", "output", "a..png">>}

\* Path(path): empty and "." segments are dropped, ".." segments are kept.
Path(path) ==
    [abs |-> path.abs,
     parts |-> SelectSeq(path.segs, LAMBDA s : s # ".")]

\* ".." in str(p): a substring test on the joined components.
has_dotdot(p) ==
    \E i \in 1..Len(p.parts) : p.parts[i] \in {"..", "a..png"}

\* p.name: the last component, the empty string when there is none.
name(p) ==
    IF p.parts = <<>> THEN "" ELSE p.parts[Len(p.parts)]

\* OUTPUT_DIR / name.
join(dir, nm) ==
    [abs |-> dir.abs,
     parts |-> IF nm = "" THEN dir.parts ELSE Append(dir.parts, nm)]

\* The location the operating system resolves components to, each ".."
\* going to the parent (the root is its own parent).
RECURSIVE walk(_, _)
walk(at, parts) ==
    IF parts = <<>> THEN at
    ELSE walk(IF Head(parts) = ".."
              THEN (IF at = <<>> THEN at ELSE SubSeq(at, 1, Len(at) - 1))
              ELSE Append(at, Head(parts)),
              Tail(parts))

location(p) ==
    walk(IF p.abs THEN <<>> ELSE Cwd, p.parts)

\* p.exists() and p.is_file() in the file system fs, a set of locations of
\* regular files.
is_file(p, fs) ==
    location(p) \in fs

\* download(path): the 404 response, or a FileResponse of the file at the
\* location of p.
download(path, fs) ==
    LET p0 == Path(path)
        p == IF has_dotdot(p0) \/ ~p0.abs
             THEN join(OUTPUT_DIR, name(p0))
             ELSE p0
    IN  IF ~is_file(p, fs)
        THEN [status |-> 404, file |-> <<>>]
        ELSE [status |-> 200, file |-> location(p)]

InitDownload ==
    /\ fn = ""
    /\ args \in PathStrings
    /\ opt \in SUBSET Files
    /\ ret = Null
    /\ PipeIdle

CallDownload ==
    /\ fn = ""
    /\ fn' = "download"
    /\ ret' = download(args, opt)
    /\ UNCHANGED <<args, opt, pipeVars>>

NextDownload ==
    \/ CallDownload

SpecDownload == InitDownload /\ [][NextDownload]_vars

\* The location loc lies inside the output directory.
InOutputDir(loc) ==
    LET out == location(OUTPUT_DIR)
    IN  /\ Len(loc) > Len(out)
        /\ SubSeq(loc, 1, Len(out)) = out

\* C27: the download endpoint only ever serves files located in
\* OUTPUT_DIR: for every requested path string (relative, absolute, or
\* containing ".."), the file returned, if any, lies inside the output
\* directory.
C27_ServesOnlyOutputDir ==
    (fn = "download" /\ ret.status = 200) => InOutputDir(ret.file)

\* The part of C27 that the code has: a path that is relative or contains
\* ".." is served from the output directory or not at all.
DownloadConfinedWhenRewritten ==
    (/\ fn = "download"
     /\ ret.status = 200
     /\ (~args.abs \/ has_dotdot(Path(args)))) => InOutputDir(ret.file)
============================================================================
